---- MODULE Spec2Model ----
EXTENDS Integers, Sequences, FiniteSets, TLC

(***************************************************************************)
(* Model of two stateful parts of the repository:                          *)
(*   - "Face Recognition System/main.py": gallery loading, the per-frame   *)
(*     matcher, the attendance log writer markAttendence and the capture   *)
(*     loop;                                                               *)
(*   - "AI Image Generator/app.py": the rate_limit decorator.              *)
(* Strings are sequences of one-character strings, so that readlines,      *)
(* split, upper and the text written to the log are computed as Python     *)
(* computes them.  Descriptors are integer vectors in units of 0.1, and    *)
(* distances are compared through their squares.                           *)
(***************************************************************************)

VARIABLES
    exists,             \* whether Attendence.csv can be opened
    file,               \* content of Attendence.csv
    file0,              \* the content the run started from
    calls,              \* history of markAttendence calls: [name, now, written]
    clock,              \* last value returned by datetime.now()
    pc,                 \* position of the script
    mylist,             \* os.listdir(path): the reference images
    classNames,         \* main.py global
    encodelistKnown,    \* main.py global
    cap,                \* the cv2.VideoCapture object
    nframes,            \* number of cap.read() calls made
    last,               \* what the last loop iteration did
    query,              \* matcher specification: the face descriptor
    result,             \* matcher specification: outcome for the query
    request_timestamps, \* app.py global
    now,                \* last value returned by time.time()
    handled,            \* times at which the wrapped handler ran
    nreq,               \* number of requests served
    resp                \* the last response of a rate-limited endpoint

vars == <<exists, file, file0, calls, clock, pc, mylist, classNames, encodelistKnown,
          cap, nframes, last, query, result, request_timestamps, now, handled,
          nreq, resp>>

ledgerVars == <<exists, file, file0, calls, clock>>
loopVars == <<pc, mylist, classNames, encodelistKnown, cap, nframes, last>>
matchVars == <<query, result>>
rateVars == <<request_timestamps, now, handled, nreq, resp>>

-----------------------------------------------------------------------------
(* Bounds of the model *)

MaxCalls == 3       \* markAttendence calls in the ledger specification
MaxClock == 2       \* largest clock reading, in seconds
MaxImages == 1      \* reference images in the gallery directory
MaxGallery == 3     \* gallery entries in the matcher specification
MaxFaces == 2       \* faces detected in one frame
MaxFrames == 2      \* loop iterations
MaxRequests == 12   \* requests served by the rate-limited endpoints
MaxNow == 61        \* largest time.time() reading, in seconds

-----------------------------------------------------------------------------
(* Python strings *)

NL == "\n"

\* str.upper() on the characters the model uses
UpperChar(c) ==
    CASE c = "a" -> "A"
      [] c = "b" -> "B"
      [] c = "c" -> "C"
      [] c = "n" -> "N"
      [] OTHER -> c

Upper(s) == [i \in 1..Len(s) |-> UpperChar(s[i])]

\* index of the first occurrence of c in s, or 0
Find(s, c) ==
    IF \E i \in 1..Len(s) : s[i] = c
    THEN CHOOSE i \in 1..Len(s) : s[i] = c /\ \A j \in 1..(i-1) : s[j] # c
    ELSE 0

\* f.readlines(): the lines of the text, each keeping its line ending
RECURSIVE readlines(_)
readlines(s) ==
    IF s = <<>> THEN <<>>
    ELSE LET k == Find(s, NL)
             e == IF k = 0 THEN Len(s) ELSE k
         IN  <<SubSeq(s, 1, e)>> \o readlines(SubSeq(s, e + 1, Len(s)))

\* line.split(',')
RECURSIVE split(_)
split(s) ==
    LET k == Find(s, ",")
    IN  IF k = 0 THEN <<s>>
        ELSE <<SubSeq(s, 1, k - 1)>> \o split(SubSeq(s, k + 1, Len(s)))

Digit(n) == <<"0", "1", "2", "3", "4", "5", "6", "7", "8", "9">>[n + 1]

TwoDigits(n) == <<Digit(n \div 10), Digit(n % 10)>>

\* the abbreviated month name that %h stands for
MonthAbbr == <<"N", "o", "v">>

\* now.strftime('%h:%M:%S'), now in seconds
strftime(t) ==
    MonthAbbr \o <<":">> \o TwoDigits((t \div 60) % 60) \o <<":">> \o TwoDigits(t % 60)

-----------------------------------------------------------------------------
(* Attendance ledger: markAttendence, main.py lines 28-39 *)

\* namelist: entry[0] of every line of the log
namelist(text) ==
    LET mydatalist == readlines(text)
    IN  [i \in 1..Len(mydatalist) |-> split(mydatalist[i])[1]]

\* the text of one f.writelines call
LogLine(name, t) == <<"n">> \o name \o <<",", " ">> \o strftime(t)

\* markAttendence(name) on a log holding `text`, the clock reading t.
\* open(..., 'r+') raises when the file cannot be opened; readlines leaves the
\* position at the end of the file, so the write appends.
markAttendence(ex, text, name, t) ==
    IF ~ex
    THEN [file |-> text, written |-> FALSE, raised |-> TRUE]
    ELSE IF \A i \in 1..Len(namelist(text)) : namelist(text)[i] # name
         THEN [file |-> text \o LogLine(name, t), written |-> TRUE, raised |-> FALSE]
         ELSE [file |-> text, written |-> FALSE, raised |-> FALSE]

\* a line without its line ending
Chomp(line) ==
    IF line # <<>> /\ line[Len(line)] = NL THEN SubSeq(line, 1, Len(line) - 1) ELSE line

\* the stored records as a reader of the log finds them: one per line,
\* the label before the first comma, the timestamp after it
Records(text) ==
    LET ls == readlines(text)
    IN  [i \in 1..Len(ls) |->
            [label |-> split(Chomp(ls[i]))[1], fields |-> Tail(split(Chomp(ls[i])))]]

-----------------------------------------------------------------------------
(* Values of the variables a specification does not use *)

LedgerIdle ==
    /\ exists = TRUE /\ file = <<>> /\ file0 = <<>> /\ calls = <<>> /\ clock = 0

LoopIdle ==
    /\ pc = "Idle" /\ mylist = <<>> /\ classNames = <<>> /\ encodelistKnown = <<>>
    /\ cap = "unopened" /\ nframes = 0 /\ last = [kind |-> "none"]

MatchIdle == query = <<>> /\ result = [kind |-> "none"]

RateIdle ==
    /\ request_timestamps = <<>> /\ now = 0 /\ handled = <<>> /\ nreq = 0
    /\ resp = [kind |-> "none"]

-----------------------------------------------------------------------------
(* Ledger specification: markAttendence called repeatedly on one log *)

\* file stems of the reference images
Stems == {<<"a">>, <<"b">>, <<"C">>}

\* the names the loop passes to markAttendence: classNames[i].upper()
Names == {Upper(s) : s \in Stems}

\* log contents a run may start from: empty, a record with its line ending,
\* a record without one
InitLogs == {<<>>, <<"A", ",", "x", NL>>, <<"B", ",", "x">>}

InitLedger ==
    /\ exists = TRUE
    /\ file \in InitLogs
    /\ file0 = file
    /\ calls = <<>>
    /\ clock = 0
    /\ LoopIdle /\ MatchIdle /\ RateIdle

Record(name, t) ==
    /\ Len(calls) < MaxCalls
    /\ LET r == markAttendence(exists, file, name, t)
       IN  /\ file' = r.file
           /\ calls' = Append(calls, [name |-> name, now |-> t, written |-> r.written])
    /\ clock' = t
    /\ UNCHANGED <<exists, file0>>
    /\ UNCHANGED <<loopVars, matchVars, rateVars>>

NextLedger == \E name \in Names, t \in clock..MaxClock : Record(name, t)

SpecLedger == InitLedger /\ [][NextLedger]_vars

\* the calls of the history that wrote a record for name
WritesFor(name) == {j \in 1..Len(calls) : calls[j].name = name /\ calls[j].written}

\* C1: however often a label is recorded, at most one record is written for
\* it: a call for a label recorded by an earlier call writes nothing, and the
\* log read back holds at most one record with that label.
C1_OneRecordPerLabel ==
    \A j \in 1..Len(calls) :
        /\ (\E i \in 1..(j - 1) : calls[i].name = calls[j].name) => ~calls[j].written
        /\ Cardinality(WritesFor(calls[j].name)) <= 1

\* C2: starting from an empty log, the number of records written equals the
\* number of distinct labels recorded.
C2_CountIsDistinctLabels ==
    file0 = <<>> =>
        Cardinality({j \in 1..Len(calls) : calls[j].written})
            = Cardinality({calls[j].name : j \in 1..Len(calls)})

\* C7: every record of the log stays in the log, at the same position and
\* with the same label and timestamp, across every call.
C7_AppendOnly ==
    [][\A i \in 1..Len(Records(file)) :
            /\ i <= Len(Records(file'))
            /\ Records(file')[i] = Records(file)[i]]_vars

-----------------------------------------------------------------------------
(* Frame matcher: main.py lines 60-66 *)

\* face descriptors, coordinates in units of 0.1
Descs == {<<0, 0>>, <<6, 0>>, <<4, 4>>, <<8, 0>>}

\* compare_faces' default tolerance 0.6, squared, in units of 0.01
ToleranceSq == 36

\* squared Euclidean distance of two descriptors
DistSq(d, e) == (d[1] - e[1]) * (d[1] - e[1]) + (d[2] - e[2]) * (d[2] - e[2])

\* face_recognition.face_distance(known, face): one distance per known encoding
face_distance(known, face) == [i \in 1..Len(known) |-> DistSq(known[i], face)]

compare_faces_strict(known, face) ==
    [i \in 1..Len(known) |-> face_distance(known, face)[i] < ToleranceSq]

\* face_recognition.compare_faces(known, face): distance <= tolerance
compare_faces(known, face) ==
    [i \in 1..Len(known) |-> face_distance(known, face)[i] <= ToleranceSq]

argmin_last(a) ==
    IF Len(a) = 0 THEN 0
    ELSE CHOOSE i \in 1..Len(a) :
            /\ \A j \in 1..Len(a) : a[i] <= a[j]
            /\ \A j \in (i + 1)..Len(a) : a[j] > a[i]

\* np.argmin(a): the first index of the minimum; 0 stands for the ValueError
\* numpy raises on an empty array
argmin(a) ==
    IF Len(a) = 0 THEN 0
    ELSE CHOOSE i \in 1..Len(a) :
            /\ \A j \in 1..Len(a) : a[i] <= a[j]
            /\ \A j \in 1..(i - 1) : a[j] > a[i]

\* the body of the for loop up to the call of markAttendence, for one face
MatchFace(names, known, face) ==
    LET matches == compare_faces(known, face)
        faceDis == face_distance(known, face)
        matchIndex == argmin(faceDis)
    IN  IF matchIndex = 0
        THEN [kind |-> "ValueError", face |-> face]
        ELSE [kind |-> "ok", face |-> face, matchIndex |-> matchIndex,
              distSq |-> faceDis[matchIndex], accepted |-> matches[matchIndex],
              name |-> IF matches[matchIndex] THEN Upper(names[matchIndex]) ELSE <<>>]

-----------------------------------------------------------------------------
(* Matcher specification: one face matched against every small gallery *)

SeqsUpTo(S, n) == UNION {[1..k -> S] : k \in 0..n}

InitMatch ==
    /\ classNames \in SeqsUpTo(Stems, MaxGallery)
    /\ encodelistKnown \in [1..Len(classNames) -> Descs]
    /\ query = <<>>
    /\ result = [kind |-> "none"]
    /\ pc = "Idle" /\ mylist = <<>> /\ cap = "unopened" /\ nframes = 0
    /\ last = [kind |-> "none"]
    /\ LedgerIdle /\ RateIdle

Match(face) ==
    /\ query' = face
    /\ result' = MatchFace(classNames, encodelistKnown, face)
    /\ UNCHANGED <<ledgerVars, loopVars, rateVars>>

NextMatch == \E face \in Descs : Match(face)

SpecMatch == InitMatch /\ [][NextMatch]_vars

\* the smallest distance from the query to a gallery entry
IsNearest(k) ==
    /\ k \in 1..Len(encodelistKnown)
    /\ \A j \in 1..Len(encodelistKnown) :
           DistSq(encodelistKnown[k], query) <= DistSq(encodelistKnown[j], query)

\* C3 as amended: for a non-empty gallery the matcher selects an entry at
\* minimum distance from the face, accepts the face exactly when that distance
\* is within the tolerance, and for an accepted face reports the entry's
\* label converted to upper case.
C3_NearestWithinTolerance ==
    (result.kind # "none" /\ Len(encodelistKnown) > 0) =>
        /\ result.kind = "ok"
        /\ IsNearest(result.matchIndex)
        /\ result.distSq = DistSq(encodelistKnown[result.matchIndex], query)
        /\ result.accepted <=> (result.distSq <= ToleranceSq)
        /\ result.accepted => result.name = Upper(classNames[result.matchIndex])

\* C3 as stated: the same, the reported label being the entry's label.
C3_ReportsEntryLabel ==
    (result.kind # "none" /\ Len(encodelistKnown) > 0) =>
        /\ result.kind = "ok"
        /\ IsNearest(result.matchIndex)
        /\ result.accepted <=> (result.distSq <= ToleranceSq)
        /\ result.accepted => result.name = classNames[result.matchIndex]

\* three entries labelled a, b, C, the face nearest to the second one and
\* accepted at a distance above zero
C3_Witness ==
    /\ result.kind = "ok" /\ classNames = <<<<"a">>, <<"b">>, <<"C">>>>
    /\ result.matchIndex = 2 /\ result.accepted /\ result.distSq > 0
    /\ result.name = <<"B">>

\* the gallery entries whose descriptor equals the query
Equal == {k \in 1..Len(encodelistKnown) : encodelistKnown[k] = query}

\* C4 as amended: a query equal to the descriptor of some gallery entry is
\* accepted with distance 0, and the entry returned is the first entry of the
\* gallery with that descriptor, its label reported in upper case.
C4_ExactMatchFirstEntry ==
    (result.kind # "none" /\ Equal # {}) =>
        /\ result.kind = "ok"
        /\ result.accepted
        /\ result.distSq = 0
        /\ result.matchIndex \in Equal
        /\ \A k \in Equal : result.matchIndex <= k
        /\ result.name = Upper(classNames[result.matchIndex])

\* C4 as stated: the entry returned is that same entry, whichever entry of
\* the gallery the query equals.
C4_ExactMatchSameEntry ==
    result.kind # "none" =>
        \A k \in Equal :
            /\ result.kind = "ok"
            /\ result.accepted
            /\ result.distSq = 0
            /\ result.matchIndex = k

\* the query equals the last of three entries, other entries before it
C4_Witness ==
    /\ result.kind = "ok" /\ Len(encodelistKnown) = 3
    /\ Equal = {3} /\ result.matchIndex = 3 /\ result.accepted

-----------------------------------------------------------------------------
(* The script: gallery loading (lines 7-26, 45), capture (48), loop (50-77) *)

LoopStems == {<<"a">>, <<"b">>}
GalleryDescs == {<<0, 0>>, <<8, 0>>}
FrameDescs == {<<0, 0>>, <<6, 0>>}

\* a reference image: its file stem and the encodings face_encodings finds in it
Images == [stem : LoopStems, faces : SeqsUpTo(GalleryDescs, 1)]

\* findEncodings(images): face_encodings(img)[0] of every image; the index
\* raises IndexError on an image without a face
findEncodings(images) ==
    IF \E i \in 1..Len(images) : images[i].faces = <<>>
    THEN [raised |-> TRUE, encodelist |-> <<>>]
    ELSE [raised |-> FALSE, encodelist |-> [i \in 1..Len(images) |-> images[i].faces[1]]]

NoError == "none"

FaceBodyDedup(names, known, ex, t, acc, face) ==
    LET m == MatchFace(names, known, face)
        seen == \E i \in 1..Len(acc.calls) : m.kind = "ok" /\ acc.calls[i] = m.name
        r == markAttendence(ex, acc.file, m.name, t)
    IN  IF m.kind = "ValueError"
        THEN [acc EXCEPT !.results = Append(@, m), !.error = "ValueError"]
        ELSE IF ~m.accepted \/ seen
        THEN [acc EXCEPT !.results = Append(@, m)]
        ELSE IF r.raised
        THEN [acc EXCEPT !.results = Append(@, m), !.calls = Append(@, m.name),
                         !.error = "FileNotFoundError"]
        ELSE [acc EXCEPT !.results = Append(@, m), !.calls = Append(@, m.name),
                         !.file = r.file,
                         !.writes = IF r.written THEN @ + 1 ELSE @]

\* the body of `for encodeFace, faceloc in zip(...)` for one face: acc is the
\* log and what the iteration has done so far
FaceBody(names, known, ex, t, acc, face) ==
    LET m == MatchFace(names, known, face)
        r == markAttendence(ex, acc.file, m.name, t)
    IN  IF m.kind = "ValueError"
        THEN [acc EXCEPT !.results = Append(@, m), !.error = "ValueError"]
        ELSE IF ~m.accepted
        THEN [acc EXCEPT !.results = Append(@, m)]
        ELSE IF r.raised
        THEN [acc EXCEPT !.results = Append(@, m), !.calls = Append(@, m.name),
                         !.error = "FileNotFoundError"]
        ELSE [acc EXCEPT !.results = Append(@, m), !.calls = Append(@, m.name),
                         !.file = r.file,
                         !.writes = IF r.written THEN @ + 1 ELSE @]

\* the for loop over the faces of a frame; an exception ends it
RECURSIVE ForFaces(_, _, _, _, _, _, _)
ForFaces(names, known, ex, t, acc, faces, i) ==
    IF i > Len(faces) \/ acc.error # NoError THEN acc
    ELSE ForFaces(names, known, ex, t,
                  FaceBody(names, known, ex, t, acc, faces[i]), faces, i + 1)

\* what cap.read() and the embedder give for one frame
FrameInputs ==
    [read : {"frame"}, embed : {"ok"}, faces : SeqsUpTo(FrameDescs, MaxFaces)]
    \cup [read : {"frame"}, embed : {"raise"}, faces : {<<>>}]
    \cup [read : {"transient", "exhausted"}, embed : {"ok"}, faces : {<<>>}]

\* one iteration of `while True`: cap.read() returning (False, None) makes
\* cv2.resize raise, an embedder failure propagates, then the for loop runs
Iteration(in, names, known, ex, text, t) ==
    LET start == [kind |-> "iteration", read |-> in.read, embed |-> in.embed,
                  faces |-> in.faces, results |-> <<>>, calls |-> <<>>,
                  writes |-> 0, file |-> text, error |-> NoError]
    IN  IF in.read # "frame" THEN [start EXCEPT !.error = "cv2.error"]
        ELSE IF in.embed = "raise" THEN [start EXCEPT !.error = "EmbedderError"]
        ELSE ForFaces(names, known, ex, t, start, in.faces, 1)

InitLoop ==
    /\ pc = "Starting"
    /\ mylist \in SeqsUpTo(Images, MaxImages)
    /\ classNames = <<>>
    /\ encodelistKnown = <<>>
    /\ cap = "unopened"
    /\ nframes = 0
    /\ last = [kind |-> "none"]
    /\ exists \in BOOLEAN
    /\ file \in IF exists THEN {<<>>, <<"A", ",", "x", NL>>} ELSE {<<>>}
    /\ file0 = file
    /\ calls = <<>>
    /\ clock = 0
    /\ MatchIdle /\ RateIdle

\* lines 7-48: list the directory, encode the images, open the camera
Startup ==
    /\ pc = "Starting"
    /\ classNames' = [i \in 1..Len(mylist) |-> mylist[i].stem]
    /\ LET e == findEncodings(mylist)
       IN  IF e.raised
           THEN /\ pc' = "Stopped"
                /\ last' = [kind |-> "startup", error |-> "IndexError"]
                /\ UNCHANGED <<encodelistKnown, cap>>
           ELSE /\ pc' = "Running"
                /\ encodelistKnown' = e.encodelist
                /\ cap' = "opened"
                /\ last' = [kind |-> "startup", error |-> NoError]
    /\ UNCHANGED <<mylist, nframes>>
    /\ UNCHANGED <<ledgerVars, matchVars, rateVars>>

\* lines 50-77: one pass of the loop body; an exception nothing catches ends
\* the script.  The frames of a run fall within one clock second.
Frame(in) ==
    /\ pc = "Running"
    /\ nframes < MaxFrames
    /\ nframes' = nframes + 1
    /\ LET it == Iteration(in, classNames, encodelistKnown, exists, file, clock)
       IN  /\ last' = it
           /\ file' = it.file
           /\ pc' = IF it.error = NoError THEN "Running" ELSE "Stopped"
    /\ UNCHANGED <<exists, file0, calls, clock>>
    /\ UNCHANGED <<mylist, classNames, encodelistKnown, cap>>
    /\ UNCHANGED <<matchVars, rateVars>>

\* the only way to end the loop from outside: SIGINT raises KeyboardInterrupt
\* in the main thread, which nothing catches
Interrupt ==
    /\ pc = "Running"
    /\ pc' = "Stopped"
    /\ last' = [kind |-> "interrupt", error |-> "KeyboardInterrupt"]
    /\ UNCHANGED <<mylist, classNames, encodelistKnown, cap, nframes>>
    /\ UNCHANGED <<ledgerVars, matchVars, rateVars>>

NextLoop ==
    \/ Startup
    \/ \E in \in FrameInputs : Frame(in)
    \/ Interrupt

Spec == InitLoop /\ [][NextLoop]_vars

\* a face the matcher accepts: some gallery entry, hence the nearest one, is
\* within the tolerance
Accepted(face) ==
    \E k \in 1..Len(encodelistKnown) : DistSq(encodelistKnown[k], face) <= ToleranceSq

\* the faces the last iteration got to, and the accepted ones among them
Reached == 1..Len(last.results)
AcceptedFaces == {i \in Reached : Accepted(last.faces[i])}

\* C5: with an empty gallery every detected face of every frame is
\* unaccepted and nothing is raised: the loop stays running and no record is
\* written.
C5_EmptyGalleryNeverRaises ==
    (last.kind = "iteration" /\ last.read = "frame" /\ last.embed = "ok"
        /\ Len(encodelistKnown) = 0) =>
        /\ last.error = NoError
        /\ pc = "Running"
        /\ Len(last.results) = Len(last.faces)
        /\ \A i \in 1..Len(last.results) :
               last.results[i].kind = "ok" /\ ~last.results[i].accepted
        /\ last.writes = 0

C8_PerFrameErrorsContained ==
    (last.kind = "iteration"
        /\ \/ last.read = "transient"
           \/ last.error = "EmbedderError"
           \/ last.error = "FileNotFoundError") =>
        pc = "Running"

\* C9: whenever the script has stopped, the capture it opened has been
\* released.
C9_ReleasedBeforeStopped ==
    pc = "Stopped" => cap # "opened"

-----------------------------------------------------------------------------
(* Rate limiter: rate_limit, app.py lines 27-52 *)

MAX_REQUESTS_PER_MINUTE == 10

\* the age, in seconds, from which a timestamp is dropped
WindowSeconds == 60

\* seconds between one request and the next
Deltas == {0, 1, 59}

Endpoints == {"enhance_prompt", "generate_image"}

rate_limit_gt(timestamps, t) ==
    LET Young(ts) == t - ts < WindowSeconds
        kept == SelectSeq(timestamps, Young)
    IN  IF Len(kept) > MAX_REQUESTS_PER_MINUTE
        THEN [timestamps |-> kept, status |-> 429, run |-> FALSE]
        ELSE [timestamps |-> Append(kept, t), status |-> 200, run |-> TRUE]

\* decorated_function at time t: drop the old timestamps, answer 429 when the
\* list is full, else add t and run the wrapped handler (status 200 stands
\* for whatever the handler answers)
rate_limit(timestamps, t) ==
    LET Young(ts) == t - ts < WindowSeconds
        kept == SelectSeq(timestamps, Young)
    IN  IF Len(kept) >= MAX_REQUESTS_PER_MINUTE
        THEN [timestamps |-> kept, status |-> 429, run |-> FALSE]
        ELSE [timestamps |-> Append(kept, t), status |-> 200, run |-> TRUE]

InitRate ==
    /\ request_timestamps = <<>>
    /\ now = 0
    /\ handled = <<>>
    /\ nreq = 0
    /\ resp = [kind |-> "none"]
    /\ LedgerIdle /\ LoopIdle /\ MatchIdle

\* the number of handler runs younger than the window at time t
Younger(t) == Cardinality({j \in 1..Len(handled) : t - handled[j] < WindowSeconds})

\* one request to a rate-limited endpoint, served at time t
Request(endpoint, t) ==
    /\ nreq < MaxRequests
    /\ t <= MaxNow
    /\ nreq' = nreq + 1
    /\ now' = t
    /\ LET r == rate_limit(request_timestamps, t)
       IN  /\ request_timestamps' = r.timestamps
           /\ handled' = IF r.run THEN Append(handled, t) ELSE handled
           /\ resp' = [kind |-> "response", endpoint |-> endpoint,
                       status |-> r.status, ran |-> r.run, younger |-> Younger(t),
                       stamped |-> Len(r.timestamps) - Younger(t)]
    /\ UNCHANGED <<ledgerVars, loopVars, matchVars>>

\* POST /api/enhance-prompt
EnhancePrompt == \E d \in Deltas : Request("enhance_prompt", now + d)

\* POST /api/generate-image
GenerateImage == \E d \in Deltas : Request("generate_image", now + d)

NextRate == EnhancePrompt \/ GenerateImage

SpecRate == InitRate /\ [][NextRate]_vars

\* the handler runs that fall in the 60 seconds starting at time s
InWindow(s) ==
    {j \in 1..Len(handled) : s <= handled[j] /\ handled[j] < s + WindowSeconds}

\* C10: requests served one at a time at non-decreasing times.  The handler
\* runs at most 10 times in any window of 60 seconds (a window holds the
\* times s <= t < s + 60), the timestamp list never holds more than 10
\* entries, a request answered 429 neither runs the handler nor adds a
\* timestamp, and a request arriving when fewer than 10 handler runs are
\* younger than 60 seconds is admitted; the list holds exactly the times of
\* the handler runs younger than 60 seconds at the last request.
C10_RateLimit ==
    /\ Len(request_timestamps) <= MAX_REQUESTS_PER_MINUTE
    /\ \A i \in 1..Len(handled) :
           Cardinality(InWindow(handled[i])) <= MAX_REQUESTS_PER_MINUTE
    /\ Len(request_timestamps) = Younger(now)
    /\ \A i \in 1..Len(request_timestamps) :
           now - request_timestamps[i] < WindowSeconds
    /\ resp.kind = "response" =>
           /\ resp.status = 429 => (~resp.ran /\ resp.stamped = 0)
           /\ resp.status # 429 => (resp.ran /\ resp.stamped = 1)
           /\ resp.younger < MAX_REQUESTS_PER_MINUTE => resp.status # 429
           /\ resp.ran <=> (Len(handled) > 0 /\ handled[Len(handled)] = now
                              /\ Younger(now) = resp.younger + 1)

\* ten requests admitted at one time, an eleventh refused within the window
\* and a twelfth admitted once the ten are 60 seconds old
C10_Witness ==
    /\ Len(handled) = 11
    /\ handled[10] = handled[1]
    /\ handled[11] = handled[1] + WindowSeconds
    /\ nreq = 12
    /\ resp.status = 200

====
